---- MODULE Spec2Model ----
(***************************************************************************)
(* csp-stars: catalog ingestion and star cache of the Stars renderer.      *)
(* Two revisions of Stars.cpp are in the repository.  The one with the     *)
(* Gaia catalog type is modelled; the loading code of the other revision   *)
(* is the same code without the Gaia branch, that is, the runs of this     *)
(* model in which Gaia is not configured.                                  *)
(* Floats are modelled in fixed point, one unit = 0.001.                   *)
(***************************************************************************)
EXTENDS Integers, Sequences, FiniteSets, TLC

VARIABLES
  mCatalogs,   \* the configured catalog types (the keys of the map)
  cacheFile,   \* the words of the cache file, or NoFile
  mStars,      \* the loaded records
  origin,      \* history: for every record of mStars, where it came from
  crossRefs,   \* history: the secondary-catalog lines read that carry a Hipparcos id
  pc,          \* the position of Stars::init
  cur,         \* the catalog readStarsFromCatalog is reading
  line,        \* history: the line most recently parsed (kept by SpecParse only)
  log,         \* history: the calls made and the messages logged
  written,     \* history: what the run that wrote cacheFile put into it
  taken,       \* history: the lines taken from the catalog files (kept by SpecLoad only)
  mStarVBO,    \* the vertex table buildStarVAO uploaded: one vertex per element
  mLoadedMinMagnitude, \* the smallest magnitude buildStarVAO has seen
  mLoadedMaxMagnitude, \* the largest magnitude buildStarVAO has seen
  mShaderDirty,        \* the star shader has to be recompiled
  mDrawMode,           \* the draw mode set
  mEnableHDR,          \* HDR set
  mStarShader,         \* the variant the star shader was compiled for, or NoShader
  compiles,            \* history: how often Do compiled the shaders
  drawn,               \* history: the point count of every render call
  paths,               \* the file path configured for every catalog type of mCatalogs
  settings             \* the members the other setters write

\* what buildStarVAO, Do and the setters work on
renderVars ==
  <<mStarVBO, mLoadedMinMagnitude, mLoadedMaxMagnitude, mShaderDirty, mDrawMode,
    mEnableHDR, mStarShader, compiles, drawn>>

vars ==
  <<mCatalogs, cacheFile, mStars, origin, crossRefs, pc, cur, line, log, written,
    taken, renderVars, paths, settings>>

(***************************************************************************)
(* Bounds of the model                                                     *)
(***************************************************************************)
\* lines read from one catalog file
MaxLines == 2
\* records of a cache file left by an earlier run
MaxCached == 2
\* records in memory when the cache round trip starts
MaxRecords == 2

(***************************************************************************)
(* Catalog types, columns and the column mapping                           *)
(***************************************************************************)
eHipparcos == 0
eTycho == 1
eTycho2 == 2
eGaia == 3

eVmag == 0
eBmag == 1
ePara == 2
eRect == 3
eDecl == 4
eHipp == 5

Columns == {eVmag, eBmag, ePara, eRect, eDecl, eHipp}

CatalogTypes == {eHipparcos, eTycho, eTycho2, eGaia}

cColumnMapping ==
  << <<34, 32, 11, 8, 9, 31>>,
     <<34, 32, 11, 8, 9, 31>>,
     <<19, 17, -1, 2, 3, 23>>,
     <<50, 55, 9, 5, 7, -1>> >>

ColumnOf(type, col) == cColumnMapping[type + 1][col + 1]

cCacheVersion == 3

(***************************************************************************)
(* The byte buffer of the cache, as a sequence of words.  A word of the    *)
(* model has WordBits bits (the checker's integers are narrower than the   *)
(* 2^32 of the program); no value of the model reaches the word's range.   *)
(***************************************************************************)
WordBits == 24
Word == 2 ^ WordBits
HalfWord == 2 ^ (WordBits - 1)

NoFile == <<-1>>

\* VistaByteBufferSerializer::WriteInt32
WriteInt32(n) == n % Word

\* VistaByteBufferSerializer::WriteFloat32 (the bit pattern of the float)
WriteFloat32(f) == f % Word

\* VistaByteBufferDeSerializer::ReadFloat32
ReadFloat32(w) == IF w >= HalfWord THEN w - Word ELSE w

Star(v, b, a, d, p) ==
  [mVMagnitude |-> v, mBMagnitude |-> b, mAscension |-> a,
   mDeclination |-> d, mParallax |-> p]

\* the bits counted from 1: pow(2, type + 1)
CatalogBitsShifted(cats) ==
  (IF eHipparcos \in cats THEN 2 ELSE 0) + (IF eTycho \in cats THEN 4 ELSE 0)
    + (IF eTycho2 \in cats THEN 8 ELSE 0) + (IF eGaia \in cats THEN 16 ELSE 0)

\* sum of pow(2, type) over the keys of mCatalogs
RECURSIVE CatalogBits(_)
CatalogBits(cats) ==
  IF cats = {} THEN 0
  ELSE LET t == CHOOSE x \in cats : TRUE
       IN  2 ^ t + CatalogBits(cats \ {t})

RECURSIVE SerializeStars(_)
SerializeStars(stars) ==
  IF stars = <<>> THEN <<>>
  ELSE << WriteFloat32(Head(stars).mVMagnitude),
          WriteFloat32(Head(stars).mBMagnitude),
          WriteFloat32(Head(stars).mAscension),
          WriteFloat32(Head(stars).mDeclination),
          WriteFloat32(Head(stars).mParallax) >> \o SerializeStars(Tail(stars))

\* the buffer writeStarCache hands to the file
CacheBuffer(version, cats, stars) ==
  << WriteInt32(version), WriteInt32(CatalogBits(cats)), WriteInt32(Len(stars)) >>
    \o SerializeStars(stars)

\* writeStarCache: the file after the call (unchanged when it cannot be opened)
writeStarCache(file, writable, cats, stars) ==
  IF writable THEN CacheBuffer(cCacheVersion, cats, stars) ELSE file

\* a read of word i of the buffer; a read past the end fails and leaves dflt
ReadWord(file, i, dflt) == IF i <= Len(file) THEN file[i] ELSE dflt

\* ReadStar with the two magnitudes read in the wrong order
ReadStarSwapped(file, num, dflt) ==
  Star(ReadFloat32(ReadWord(file, 3 + 5 * num + 2, WriteFloat32(dflt.mBMagnitude))),
       ReadFloat32(ReadWord(file, 3 + 5 * num + 1, WriteFloat32(dflt.mVMagnitude))),
       ReadFloat32(ReadWord(file, 3 + 5 * num + 3, WriteFloat32(dflt.mAscension))),
       ReadFloat32(ReadWord(file, 3 + 5 * num + 4, WriteFloat32(dflt.mDeclination))),
       ReadFloat32(ReadWord(file, 3 + 5 * num + 5, WriteFloat32(dflt.mParallax))))

ReadStar(file, num, dflt) ==
  Star(ReadFloat32(ReadWord(file, 3 + 5 * num + 1, WriteFloat32(dflt.mVMagnitude))),
       ReadFloat32(ReadWord(file, 3 + 5 * num + 2, WriteFloat32(dflt.mBMagnitude))),
       ReadFloat32(ReadWord(file, 3 + 5 * num + 3, WriteFloat32(dflt.mAscension))),
       ReadFloat32(ReadWord(file, 3 + 5 * num + 4, WriteFloat32(dflt.mDeclination))),
       ReadFloat32(ReadWord(file, 3 + 5 * num + 5, WriteFloat32(dflt.mParallax))))

\* readStarCache without the comparison of the catalog bitmask
readStarCacheAnyCatalogs(file, cats, dflt) ==
  IF file = NoFile THEN [hit |-> FALSE, stars |-> <<>>]
  ELSE LET cacheVersion == ReadWord(file, 1, 0)
           numStars     == ReadWord(file, 3, 0)
       IN  IF cacheVersion # cCacheVersion THEN [hit |-> FALSE, stars |-> <<>>]
           ELSE [hit |-> TRUE,
                 stars |-> [num \in 1..numStars |-> ReadStar(file, num - 1, dflt)]]

\* readStarCache: [hit, stars] where stars are the records appended
readStarCache(file, cats, dflt) ==
  IF file = NoFile THEN [hit |-> FALSE, stars |-> <<>>]
  ELSE LET cacheVersion == ReadWord(file, 1, 0)
           catalogs     == ReadWord(file, 2, 0)
           numStars     == ReadWord(file, 3, 0)
       IN  IF cacheVersion # cCacheVersion THEN [hit |-> FALSE, stars |-> <<>>]
           ELSE IF catalogs # CatalogBits(cats) THEN [hit |-> FALSE, stars |-> <<>>]
           ELSE [hit |-> TRUE,
                 stars |-> [num \in 1..numStars |-> ReadStar(file, num - 1, dflt)]]

(***************************************************************************)
(* Catalog lines.  A line is its number of tokens, the star it describes   *)
(* and, per logical column, how the token read for that column parses.     *)
(* For a column index outside 0..n-1 the token is what the out-of-range    *)
(* read of items[] happens to yield.                                       *)
(***************************************************************************)
Kinds == {"blank", "number", "fraction"}

\* token counts: below the minimum, the minimum, enough for every column
\* of Hipparcos, Tycho and Tycho2, enough for every column of Gaia
TokenCounts == {12, 13, 35, 56}

\* the stars the catalog lines describe
StarIds == {1, 2}

FloatColumns == {eVmag, eBmag, ePara, eRect, eDecl}

\* the float columns hold a number or are blank (at most one of them blank);
\* the Hipparcos id is an integer, blank, or a token no integer starts
KindVectors ==
  {k \in [Columns -> Kinds] :
     /\ \A c \in FloatColumns : k[c] # "fraction"
     /\ \A c, d \in FloatColumns : k[c] = "blank" /\ k[d] = "blank" => c = d}

Lines ==
  {[n |-> 12, star |-> 1, kinds |-> [c \in Columns |-> "blank"]]}
  \cup
  {[n |-> n, star |-> s, kinds |-> k] :
     n \in TokenCounts \ {12}, s \in StarIds, k \in KindVectors}

NoLine == [n |-> -1, star |-> 0, kinds |-> [c \in Columns |-> "blank"]]

\* the value written in column col of the line of star s (0.001 units)
TokenValue(s, col) ==
  CASE col = eVmag -> 5000 * s
    [] col = eBmag -> 5000 * s + 650
    [] col = ePara -> 100000 * s
    [] col = eRect -> 90000 * s
    [] col = eDecl -> 10000 * (s - 1)
    [] OTHER       -> 1000 * s

\* fromString<float>: [ok, out]
fromStringFloat(kind, value) ==
  IF kind = "blank" THEN [ok |-> FALSE, out |-> 0] ELSE [ok |-> TRUE, out |-> value]

\* fromString<int>: whether the token starts with an integer
fromStringInt(kind) == kind = "number"

PiMilli == 3142

\* (360 + 90 - ascension) / 180 * Pi
NormalizeAscension(a) == ((360000 + 90000 - a) * PiMilli) \div 180000

\* declination / 180 * Pi
NormalizeDeclination(d) == (d * PiMilli) \div 180000

\* the columns readStarsFromCatalog indexes items[] with, for a line that
\* passed the size check
UsedColumns(type, loadHipparcos) ==
  {eVmag, eBmag, eRect, eDecl}
    \cup (IF ColumnOf(type, ePara) > 0 THEN {ePara} ELSE {})
    \cup (IF type # eHipparcos /\ loadHipparcos THEN {eHipp} ELSE {})

\* the indexes of the items[] accesses of the line that are outside the vector
OutOfRange(type, ln, loadHipparcos) ==
  IF ln.n > 12
  THEN {ColumnOf(type, c) : c \in
          {u \in UsedColumns(type, loadHipparcos) :
             ColumnOf(type, u) < 0 \/ ColumnOf(type, u) >= ln.n}}
  ELSE {}

\* no line skipped as part of the hipparcos catalogue
SkipNever(type, ln, loadHipparcos) == FALSE

\* skip if part of hipparcos catalogue
SkipAsHipparcos(type, ln, loadHipparcos) ==
  type # eHipparcos /\ loadHipparcos /\ fromStringInt(ln.kinds[eHipp])

Field(ln, col) == fromStringFloat(ln.kinds[col], TokenValue(ln.star, col))

\* successStoreData without the declination
successStoreDataNoDecl(ln) ==
  Field(ln, eVmag).ok /\ Field(ln, eBmag).ok /\ Field(ln, eRect).ok

successStoreData(ln) ==
  Field(ln, eVmag).ok /\ Field(ln, eBmag).ok /\ Field(ln, eRect).ok /\ Field(ln, eDecl).ok

ParseParallax(type, ln) ==
  IF ColumnOf(type, ePara) > 0
  THEN (IF Field(ln, ePara).ok THEN Field(ln, ePara).out ELSE 0)
  ELSE 0

\* the body of the line loop: the records appended for one line
ParseLine(type, ln, loadHipparcos) ==
  IF ln.n > 12
  THEN IF SkipAsHipparcos(type, ln, loadHipparcos) THEN <<>>
       ELSE IF successStoreData(ln)
            THEN << Star(Field(ln, eVmag).out, Field(ln, eBmag).out,
                         NormalizeAscension(Field(ln, eRect).out),
                         NormalizeDeclination(Field(ln, eDecl).out),
                         ParseParallax(type, ln)) >>
            ELSE <<>>
  ELSE <<>>

(***************************************************************************)
(* State                                                                   *)
(***************************************************************************)
NoCat == eHipparcos - 1
NoCur == [type |-> NoCat, lineCount |-> 0, failed |-> FALSE, spin |-> 0]

\* a call made or a message logged; arg is the catalog type it is about, or
\* the index of the out-of-range access, or NoCat
Event(ev, arg) == [ev |-> ev, arg |-> arg]

\* where a record came from: the cache, or a line of a catalog
FromCache == [type |-> NoCat, star |-> 0, hippInt |-> FALSE]
FromLine(type, ln) ==
  [type |-> type, star |-> ln.star,
   hippInt |-> type # eHipparcos /\ ln.kinds[eHipp] = "number"]

\* the line carries a Hipparcos id: the column exists and holds an integer
CarriesHipparcosId(type, ln) ==
  /\ ColumnOf(type, eHipp) >= 0
  /\ ColumnOf(type, eHipp) < ln.n
  /\ ln.kinds[eHipp] = "number"

\* records of a cache file an earlier run left
CachedStar(s) ==
  Star(TokenValue(s, eVmag), TokenValue(s, eBmag),
       NormalizeAscension(TokenValue(s, eRect)),
       NormalizeDeclination(TokenValue(s, eDecl)), TokenValue(s, ePara))

CachedStars == [i \in 1..MaxCached |-> CachedStar(MaxCached + 1 - i)]

\* the catalog sets of the earlier run that wrote the cache
EarlierCatalogs(cats) ==
  {cats, IF eHipparcos \in cats THEN cats \ {eHipparcos} ELSE cats \cup {eHipparcos}}

NoWrite == [version |-> -1, cats |-> {}, stars |-> <<>>]
Written(version, cats, stars) == [version |-> version, cats |-> cats, stars |-> stars]

\* the runs that may have left a cache file: an older build or this one,
\* configured as now or with or without the Hipparcos catalog
EarlierRuns(cats) ==
  {Written(v, c, CachedStars) :
     v \in {cCacheVersion - 1, cCacheVersion}, c \in EarlierCatalogs(cats)}

FileOf(w) == IF w = NoWrite THEN NoFile ELSE CacheBuffer(w.version, w.cats, w.stars)

(***************************************************************************)
(* The vertex table and the shaders                                        *)
(***************************************************************************)
\* enum DrawMode
ePoint       == 0
eSmoothPoint == 1
eDisc        == 2
eSmoothDisc  == 3
eSprite      == 4

DrawModes == {ePoint, eSmoothPoint, eDisc, eSmoothDisc, eSprite}

\* mSpectralColors, as init fills it (0xRRGGBB)
mSpectralColors ==
  << 10203903, 10401279, 10729983, 11190271, 11716095, 12307711,
     12899071, 13424895, 13884927, 14344959, 14673407, 15002111,
     15330559, 15659007, 15987455, 16316159, 16710143, 16775675,
     16775157, 16774639, 16774122, 16773605, 16773088, 16772571,
     16772054, 16771278, 16770762, 16770502, 16769987, 16769727,
     16769211, 16768952, 16768436, 16767920, 16767661, 16767145,
     16766629, 16765596, 16765078, 16764047, 16763013, 16761208,
     16758629, 16755019, 16749859, 16743168, 16732672 >>

\* VistaColor::GetRed, GetGreen, GetBlue (0..255)
GetRed(color)   == (color \div 65536) % 256
GetGreen(color) == (color \div 256) % 256
GetBlue(color)  == color % 256

\* const float minIdx(-0.4f), maxIdx(2.0f), step(0.05f)
minIdx  == 0 - 400
maxIdx  == 2000
step    == 50

Min(a, b) == IF b < a THEN b ELSE a
Max(a, b) == IF a < b THEN b ELSE a

\* bvIndex = std::min(maxIdx, std::max(minIdx, mBMagnitude - mVMagnitude))
bvIndex(star) == Min(maxIdx, Max(minIdx, star.mBMagnitude - star.mVMagnitude))

\* (bvIndex - minIdx) / (maxIdx - minIdx) / step + 0.5f
normalizedIndex(star) ==
  ((((bvIndex(star) - minIdx) * 1000) \div (maxIdx - minIdx)) * 1000) \div step + 500

\* the bucket without the division by the width of the range
BucketByStep(star) == ((((bvIndex(star) - minIdx) * 1000) \div step) + 500) \div 1000

\* the bucket rounded up
BucketCeiling(star) == (normalizedIndex(star) + 999) \div 1000

\* (int)normalizedIndex, the index into mSpectralColors (from 0)
Bucket(star) == normalizedIndex(star) \div 1000

\* mSpectralColors[(int)normalizedIndex]; outside the vector the read is
\* undefined and NoColor stands for what it gives
NoColor == 0 - 1
ColorOf(star) ==
  IF Bucket(star) >= 0 /\ Bucket(star) < Len(mSpectralColors)
  THEN mSpectralColors[Bucket(star) + 1] ELSE NoColor

\* float fDist = 100000.f
FallbackDistance == 100000 * 1000

\* the distance whatever the parallax
DistanceNoFallback(star) ==
  IF star.mParallax = 0 THEN FallbackDistance ELSE (1000000 * 1000) \div star.mParallax

\* if (it->mParallax > 0.f) fDist = 1000.f / it->mParallax
Distance(star) ==
  IF star.mParallax > 0 THEN (1000000 * 1000) \div star.mParallax ELSE FallbackDistance

iElementCount == 7

\* the elements data[c] .. data[c + 6] of one record
VertexOf(star) ==
  << star.mDeclination, star.mAscension, Distance(star),
     GetRed(ColorOf(star)), GetGreen(ColorOf(star)), GetBlue(ColorOf(star)),
     star.mVMagnitude >>

\* the table with the vertex of the first record only
BuildDataFirstOnly(stars) ==
  [k \in 1..(iElementCount * Min(1, Len(stars))) |-> VertexOf(stars[1])[k]]

\* std::vector<float> data(iElementCount * mStars.size()), as the loop fills it
BuildData(stars) ==
  [k \in 1..(iElementCount * Len(stars)) |->
     VertexOf(stars[((k - 1) \div iElementCount) + 1])[((k - 1) % iElementCount) + 1]]

\* std::numeric_limits<float>::max(), and ::min(): the smallest positive
\* float, which is below the unit of the model
FloatMax == HalfWord - 1
FloatMin == 0

\* the loop's std::min(mLoadedMinMagnitude, it->mVMagnitude)
RECURSIVE LoadedMin(_, _)
LoadedMin(m, stars) ==
  IF stars = <<>> THEN m ELSE LoadedMin(Min(m, Head(stars).mVMagnitude), Tail(stars))

\* the loop's std::max(mLoadedMaxMagnitude, it->mVMagnitude)
RECURSIVE LoadedMax(_, _)
LoadedMax(m, stars) ==
  IF stars = <<>> THEN m ELSE LoadedMax(Max(m, Head(stars).mVMagnitude), Tail(stars))

\* the defines and the sources the star shader is built from
NoShader ==
  [hdr |-> FALSE, mode |-> ePoint - 1, onePixel |-> FALSE, defines |-> {}, stages |-> {}]

\* the #define lines appended to "#version 330"
Defines(hdr, mode) ==
  (IF hdr THEN {"ENABLE_HDR"} ELSE {})
    \cup (CASE mode = eSmoothPoint -> {"DRAWMODE_SMOOTH_POINT"}
            [] mode = ePoint       -> {"DRAWMODE_POINT"}
            [] mode = eDisc        -> {"DRAWMODE_DISC"}
            [] mode = eSmoothDisc  -> {"DRAWMODE_SMOOTH_DISC"}
            [] mode = eSprite      -> {"DRAWMODE_SPRITE"}
            [] OTHER               -> {})

\* the geometry stage for every draw mode
StagesWithGeometry(mode) == {"cStarsVert", "cStarsGeom", "cStarsFrag"}

\* the sources handed to InitVertexShaderFromString, InitGeometryShaderFromString
\* and InitFragmentShaderFromString
Stages(mode) ==
  IF mode = ePoint \/ mode = eSmoothPoint
  THEN {"cStarsVertOnePixel", "cStarsFragOnePixel"}
  ELSE {"cStarsVert", "cStarsGeom", "cStarsFrag"}

\* the program of the default settings whatever the settings
ShaderForDefault(hdr, mode) ==
  [hdr |-> TRUE, mode |-> eSmoothDisc, onePixel |-> FALSE,
   defines |-> Defines(TRUE, eSmoothDisc), stages |-> Stages(eSmoothDisc)]

ShaderFor(hdr, mode) ==
  [hdr |-> hdr, mode |-> mode, onePixel |-> mode \in {ePoint, eSmoothPoint},
   defines |-> Defines(hdr, mode), stages |-> Stages(mode)]

\* mSolidAngle (1e-6), mMinMagnitude, mMaxMagnitude, mLuminanceMultiplicator
\* and the two background colors as the header initialises them
SettingsInit ==
  [mSolidAngle |-> 5, mMinMagnitude |-> 0 - 5000, mMaxMagnitude |-> 15000,
   mLuminanceMultiplicator |-> 1000, mBackgroundColor1 |-> 0, mBackgroundColor2 |-> 0]

\* the values the other setters are called with
SettingValues ==
  [mSolidAngle |-> {5, 10}, mMinMagnitude |-> {0 - 5000, 0},
   mMaxMagnitude |-> {15000, 10000}, mLuminanceMultiplicator |-> {1000, 2000},
   mBackgroundColor1 |-> {0, 16777215}, mBackgroundColor2 |-> {0, 16777215}]

\* the paths of the catalog files: all in the one directory or in the other
PathIds == {1, 2}
PathChoices(cats) == {[t \in cats |-> p] : p \in PathIds}
DefaultPaths(cats) == [t \in cats |-> 1]

\* the members after the constructor's initialisers, before init
RenderInit ==
  /\ mStarVBO = <<>>
  /\ mLoadedMinMagnitude = FloatMax
  /\ mLoadedMaxMagnitude = FloatMin
  /\ mShaderDirty = TRUE
  /\ mDrawMode \in {eSmoothPoint, eSmoothDisc}
  /\ mEnableHDR = TRUE
  /\ mStarShader = NoShader
  /\ compiles = 0
  /\ drawn = <<>>
  /\ settings = SettingsInit

Init ==
  /\ mCatalogs \in SUBSET CatalogTypes
  /\ written \in {NoWrite} \cup EarlierRuns(mCatalogs)
  /\ cacheFile = FileOf(written)
  /\ mStars = <<>>
  /\ origin = <<>>
  /\ crossRefs = {}
  /\ pc = "init"
  /\ cur = NoCur
  /\ line = NoLine
  /\ log = <<>>
  /\ taken = <<>>
  /\ paths = DefaultPaths(mCatalogs)
  /\ RenderInit

\* Star star; the fields of a record the file is too short for (the later
\* revision value-initialises them: Star star{})
DefaultStar == Star(0, 0, 0, 0, 0)

\* Star star; in the record loop of readStarCache: the floats are not
\* initialised, so a field no read assigns holds zero or whatever the stack
\* held
UnreadStars == {DefaultStar, Star(12345, 0 - 777, 99, 0 - 42, 1)}

(***************************************************************************)
(* Stars::init, step by step                                               *)
(***************************************************************************)
\* init going on to the catalogs whatever readStarCache returned
AfterCacheIgnored(hit) == "catalogs"

\* if (!readStarCache(sCacheFile)) { read the catalogs } buildStarVAO();
AfterCache(hit) == IF hit THEN "build" ELSE "catalogs"

\* a cache that is bound to the catalog paths of the run that wrote it
InitReadCachePathBound ==
  /\ pc = "init"
  /\ \E unread \in UnreadStars :
       LET r == IF paths = DefaultPaths(mCatalogs)
                THEN readStarCache(cacheFile, mCatalogs, unread)
                ELSE [hit |-> FALSE, stars |-> <<>>]
       IN  /\ mStars' = mStars \o r.stars
           /\ origin' = origin \o [i \in 1..Len(r.stars) |-> FromCache]
           /\ pc' = AfterCache(r.hit)
           /\ log' = Append(log, Event(IF r.hit THEN "cacheHit" ELSE "cacheMiss", NoCat))
  /\ UNCHANGED <<mCatalogs, paths, settings, cacheFile, crossRefs, cur, line, written, taken, renderVars>>

\* readStarCache(sCacheFile), called first
InitReadCache ==
  /\ pc = "init"
  /\ \E unread \in UnreadStars :
       LET r == readStarCache(cacheFile, mCatalogs, unread)
       IN  /\ mStars' = mStars \o r.stars
           /\ origin' = origin \o [i \in 1..Len(r.stars) |-> FromCache]
           /\ pc' = AfterCache(r.hit)
           /\ log' = Append(log, Event(IF r.hit THEN "cacheHit" ELSE "cacheMiss", NoCat))
  /\ UNCHANGED <<mCatalogs, paths, settings, cacheFile, crossRefs, cur, line, written, taken, renderVars>>

\* the Gaia branch without its else: init goes on with the other catalogs
AfterCatalogFallThrough(type) ==
  CASE type = eGaia      -> "hipparcos"
    [] type = eHipparcos -> "tycho"
    [] type = eTycho     -> "tycho2"
    [] OTHER             -> "write"

\* where init continues after readStarsFromCatalog(type) returned
AfterCatalog(type) ==
  CASE type = eGaia      -> "write"
    [] type = eHipparcos -> "tycho"
    [] type = eTycho     -> "tycho2"
    [] OTHER             -> "write"

\* the message init logs after the Gaia catalog was read
GaiaMessage(type) ==
  IF type = eGaia /\ Cardinality(mCatalogs) > 1
  THEN << Event("gaiaCombined", NoCat) >> ELSE <<>>

\* readStarsFromCatalog whose failure to open the file ends the parsing of
\* the catalogs
OpenCatalogFatal(type) ==
  \E opens \in BOOLEAN :
    /\ IF opens
       THEN /\ pc' = "lines"
            /\ cur' = [type |-> type, lineCount |-> 0, failed |-> FALSE, spin |-> 0]
            /\ log' = Append(log, Event("open", type))
       ELSE /\ pc' = "write"
            /\ cur' = NoCur
            /\ log' = Append(log, Event("openFailed", type)) \o GaiaMessage(type)
    /\ UNCHANGED <<mCatalogs, paths, settings, cacheFile, mStars, origin, crossRefs, line, written, taken, renderVars>>

\* readStarsFromCatalog up to the line loop: the file opens or does not
OpenCatalog(type) ==
  \E opens \in BOOLEAN :
    /\ IF opens
       THEN /\ pc' = "lines"
            /\ cur' = [type |-> type, lineCount |-> 0, failed |-> FALSE, spin |-> 0]
            /\ log' = Append(log, Event("open", type))
       ELSE /\ pc' = AfterCatalog(type)
            /\ cur' = NoCur
            /\ log' = Append(log, Event("openFailed", type)) \o GaiaMessage(type)
    /\ UNCHANGED <<mCatalogs, paths, settings, cacheFile, mStars, origin, crossRefs, line, written, taken, renderVars>>

Skip(next) ==
  /\ pc' = next
  /\ UNCHANGED <<mCatalogs, paths, settings, cacheFile, mStars, origin, crossRefs, cur, line, log, written, taken, renderVars>>

\* it = mCatalogs.find(CatalogType::eGaia)
FindGaia ==
  /\ pc = "catalogs"
  /\ IF eGaia \in mCatalogs THEN OpenCatalog(eGaia) ELSE Skip("hipparcos")

FindHipparcos ==
  /\ pc = "hipparcos"
  /\ IF eHipparcos \in mCatalogs THEN OpenCatalog(eHipparcos) ELSE Skip("tycho")

FindTycho ==
  /\ pc = "tycho"
  /\ IF eTycho \in mCatalogs THEN OpenCatalog(eTycho) ELSE Skip("tycho2")

\* Tycho2 read without looking for Tycho
FindTycho2Unchecked ==
  /\ pc = "tycho2"
  /\ IF eTycho2 \in mCatalogs THEN OpenCatalog(eTycho2) ELSE Skip("write")

\* do not load tycho and tycho 2
FindTycho2 ==
  /\ pc = "tycho2"
  /\ IF eTycho2 \in mCatalogs
     THEN IF eTycho \notin mCatalogs
          THEN OpenCatalog(eTycho2)
          ELSE /\ pc' = "write"
               /\ log' = Append(log, Event("tycho2Skipped", NoCat))
               /\ UNCHANGED <<mCatalogs, paths, settings, cacheFile, mStars, origin, crossRefs, cur, line, written, taken, renderVars>>
     ELSE Skip("write")

\* one iteration of the line loop of readStarsFromCatalog, on line ln: the
\* records of the line are appended, or an out-of-range items[] access ends
\* the process
LineLoop(ln) ==
  LET loadHipparcos == eHipparcos \in mCatalogs
      stars == ParseLine(cur.type, ln, loadHipparcos)
  IN  /\ pc = "lines"
      /\ ~cur.failed
      /\ cur.lineCount < MaxLines
      /\ \/ /\ mStars' = mStars \o stars
            /\ origin' = origin \o [i \in 1..Len(stars) |-> FromLine(cur.type, ln)]
            /\ crossRefs' =
                 IF ln.n > 12 /\ cur.type # eHipparcos /\ CarriesHipparcosId(cur.type, ln)
                 THEN crossRefs \cup {ln.star} ELSE crossRefs
            /\ cur' = [cur EXCEPT !.lineCount = @ + 1]
            /\ pc' = "lines"
            /\ UNCHANGED log
         \/ /\ \E index \in OutOfRange(cur.type, ln, loadHipparcos) :
                 log' = Append(log, Event("outOfRange", index))
            /\ pc' = "crashed"
            /\ UNCHANGED <<mStars, origin, crossRefs, cur>>
      /\ UNCHANGED <<mCatalogs, paths, settings, cacheFile, written, renderVars>>

ReadLine == \E ln \in Lines : LineLoop(ln) /\ UNCHANGED <<line, taken>>

\* a getline that fails before the end of the file (a read error: the failure
\* state of the stream is set, its end-of-file state is not): no token, no record
StreamFails ==
  /\ pc = "lines"
  /\ ~cur.failed
  /\ cur' = [cur EXCEPT !.failed = TRUE]
  /\ UNCHANGED <<mCatalogs, paths, settings, cacheFile, mStars, origin, crossRefs, pc, line,
                 log, written, taken, renderVars>>

\* while (!file.eof()) on a stream that failed: eof() stays false, getline
\* returns at once with an empty line, the body finds no token; spin is the
\* parity of the iterations
FailedRead ==
  /\ pc = "lines"
  /\ cur.failed
  /\ cur' = [cur EXCEPT !.spin = 1 - @]
  /\ UNCHANGED <<mCatalogs, paths, settings, cacheFile, mStars, origin, crossRefs, pc, line,
                 log, written, taken, renderVars>>

\* end of file: file.close(), success = true, return to init
CloseCatalog ==
  /\ pc = "lines"
  /\ ~cur.failed
  /\ cur.lineCount >= 1
  /\ pc' = AfterCatalog(cur.type)
  /\ cur' = NoCur
  /\ line' = NoLine
  /\ log' = Append(log, Event("close", cur.type)) \o GaiaMessage(cur.type)
  /\ UNCHANGED <<mCatalogs, paths, settings, cacheFile, mStars, origin, crossRefs, written, taken, renderVars>>

\* the cache written also when nothing was loaded
HasStarsAlways(stars) == TRUE

\* if (!mStars.empty())
HasStars(stars) == stars # <<>>

\* the message init logs when nothing was loaded
NoStarsQuiet(stars) == <<>>

\* spdlog::warn("Loaded no stars. Stars will not work properly.")
NoStarsMessage(stars) == IF stars = <<>> THEN << Event("noStars", NoCat) >> ELSE <<>>

\* if (!mStars.empty()) writeStarCache(sCacheFile); else warn
InitWriteCache ==
  /\ pc = "write"
  /\ IF HasStars(mStars)
     THEN \E writable \in BOOLEAN :
            /\ cacheFile' = writeStarCache(cacheFile, writable, mCatalogs, mStars)
            /\ written' = IF writable THEN Written(cCacheVersion, mCatalogs, mStars) ELSE written
            /\ log' = Append(log, Event(IF writable THEN "cacheWritten" ELSE "cacheWriteFailed", NoCat))
     ELSE /\ log' = log \o NoStarsMessage(mStars)
          /\ UNCHANGED <<cacheFile, written>>
  /\ pc' = "build"
  /\ UNCHANGED <<mCatalogs, paths, settings, mStars, origin, crossRefs, cur, line, taken, renderVars>>

\* buildStarVAO(), the last call of init
BuildStarVAO ==
  /\ pc = "build"
  /\ mStarVBO' = BuildData(mStars)
  /\ mLoadedMinMagnitude' = LoadedMin(mLoadedMinMagnitude, mStars)
  /\ mLoadedMaxMagnitude' = LoadedMax(mLoadedMaxMagnitude, mStars)
  /\ pc' = "done"
  /\ UNCHANGED <<mCatalogs, paths, settings, cacheFile, mStars, origin, crossRefs, cur, line, log, written,
                 taken, mShaderDirty, mDrawMode, mEnableHDR, mStarShader, compiles, drawn>>

\* render calls of one run
MaxFrames == 3

\* Stars::Do: the shaders are compiled if they are dirty, then
\* glDrawArrays(GL_POINTS, 0, mStars.size())
\* a render call that compiles the shaders on every frame
DoAlways ==
  /\ pc = "done"
  /\ Len(drawn) < MaxFrames
  /\ mStarShader' = ShaderFor(mEnableHDR, mDrawMode)
  /\ compiles' = compiles + 1
  /\ mShaderDirty' = FALSE
  /\ drawn' = Append(drawn, Len(mStars))
  /\ UNCHANGED <<mCatalogs, paths, settings, cacheFile, mStars, origin, crossRefs, pc, cur, line, log, written,
                 taken, mStarVBO, mLoadedMinMagnitude, mLoadedMaxMagnitude, mDrawMode,
                 mEnableHDR>>

Do ==
  /\ pc = "done"
  /\ Len(drawn) < MaxFrames
  /\ IF mShaderDirty
     THEN /\ mStarShader' = ShaderFor(mEnableHDR, mDrawMode)
          /\ compiles' = compiles + 1
     ELSE UNCHANGED <<mStarShader, compiles>>
  /\ mShaderDirty' = FALSE
  /\ drawn' = Append(drawn, Len(mStars))
  /\ UNCHANGED <<mCatalogs, paths, settings, cacheFile, mStars, origin, crossRefs, pc, cur, line, log, written,
                 taken, mStarVBO, mLoadedMinMagnitude, mLoadedMaxMagnitude, mDrawMode,
                 mEnableHDR>>

\* setDrawMode that leaves the shader as it is
setDrawModeClean(value) ==
  /\ pc = "done"
  /\ mDrawMode' = value
  /\ UNCHANGED <<mCatalogs, paths, settings, cacheFile, mStars, origin, crossRefs, pc, cur, line, log, written,
                 taken, mStarVBO, mLoadedMinMagnitude, mLoadedMaxMagnitude, mShaderDirty,
                 mEnableHDR, mStarShader, compiles, drawn>>

\* Stars::setDrawMode
setDrawMode(value) ==
  /\ pc = "done"
  /\ IF mDrawMode # value
     THEN /\ mShaderDirty' = TRUE
          /\ mDrawMode' = value
     ELSE UNCHANGED <<mShaderDirty, mDrawMode>>
  /\ UNCHANGED <<mCatalogs, paths, settings, cacheFile, mStars, origin, crossRefs, pc, cur, line, log, written,
                 taken, mStarVBO, mLoadedMinMagnitude, mLoadedMaxMagnitude,
                 mEnableHDR, mStarShader, compiles, drawn>>

\* setEnableHDR that compiles the shader at once
setEnableHDREager(value) ==
  /\ pc = "done"
  /\ mEnableHDR' = value
  /\ IF mEnableHDR # value
     THEN /\ mStarShader' = ShaderFor(value, mDrawMode)
          /\ compiles' = compiles + 1
     ELSE UNCHANGED <<mStarShader, compiles>>
  /\ UNCHANGED <<mCatalogs, paths, settings, cacheFile, mStars, origin, crossRefs, pc, cur, line, log, written,
                 taken, mStarVBO, mLoadedMinMagnitude, mLoadedMaxMagnitude, mShaderDirty,
                 mDrawMode, drawn>>

\* Stars::setEnableHDR
setEnableHDR(value) ==
  /\ pc = "done"
  /\ IF mEnableHDR # value
     THEN /\ mShaderDirty' = TRUE
          /\ mEnableHDR' = value
     ELSE UNCHANGED <<mShaderDirty, mEnableHDR>>
  /\ UNCHANGED <<mCatalogs, paths, settings, cacheFile, mStars, origin, crossRefs, pc, cur, line, log, written,
                 taken, mStarVBO, mLoadedMinMagnitude, mLoadedMaxMagnitude,
                 mDrawMode, mStarShader, compiles, drawn>>

\* setMinMagnitude that marks the shaders dirty
setMinMagnitudeDirty(value) ==
  /\ pc = "done"
  /\ settings' = [settings EXCEPT !.mMinMagnitude = value]
  /\ mShaderDirty' = TRUE
  /\ UNCHANGED <<mCatalogs, paths, cacheFile, mStars, origin, crossRefs, pc, cur, line, log, written,
                 taken, mStarVBO, mLoadedMinMagnitude, mLoadedMaxMagnitude, mDrawMode,
                 mEnableHDR, mStarShader, compiles, drawn>>

\* Stars::setSolidAngle
setSolidAngle(value) ==
  /\ pc = "done"
  /\ settings' = [settings EXCEPT !.mSolidAngle = value]
  /\ UNCHANGED <<mCatalogs, paths, cacheFile, mStars, origin, crossRefs, pc, cur, line, log, written,
                 taken, renderVars>>

\* Stars::setMinMagnitude
setMinMagnitude(value) ==
  /\ pc = "done"
  /\ settings' = [settings EXCEPT !.mMinMagnitude = value]
  /\ UNCHANGED <<mCatalogs, paths, cacheFile, mStars, origin, crossRefs, pc, cur, line, log, written,
                 taken, renderVars>>

\* Stars::setMaxMagnitude
setMaxMagnitude(value) ==
  /\ pc = "done"
  /\ settings' = [settings EXCEPT !.mMaxMagnitude = value]
  /\ UNCHANGED <<mCatalogs, paths, cacheFile, mStars, origin, crossRefs, pc, cur, line, log, written,
                 taken, renderVars>>

\* Stars::setLuminanceMultiplicator
setLuminanceMultiplicator(value) ==
  /\ pc = "done"
  /\ settings' = [settings EXCEPT !.mLuminanceMultiplicator = value]
  /\ UNCHANGED <<mCatalogs, paths, cacheFile, mStars, origin, crossRefs, pc, cur, line, log, written,
                 taken, renderVars>>

\* Stars::setBackgroundColor1
setBackgroundColor1(value) ==
  /\ pc = "done"
  /\ settings' = [settings EXCEPT !.mBackgroundColor1 = value]
  /\ UNCHANGED <<mCatalogs, paths, cacheFile, mStars, origin, crossRefs, pc, cur, line, log, written,
                 taken, renderVars>>

\* Stars::setBackgroundColor2
setBackgroundColor2(value) ==
  /\ pc = "done"
  /\ settings' = [settings EXCEPT !.mBackgroundColor2 = value]
  /\ UNCHANGED <<mCatalogs, paths, cacheFile, mStars, origin, crossRefs, pc, cur, line, log, written,
                 taken, renderVars>>

Next ==
  \/ InitReadCache
  \/ FindGaia
  \/ FindHipparcos
  \/ FindTycho
  \/ FindTycho2
  \/ ReadLine
  \/ StreamFails
  \/ FailedRead
  \/ CloseCatalog
  \/ InitWriteCache
  \/ BuildStarVAO
  \/ Do

Spec == Init /\ [][Next]_vars

(***************************************************************************)
(* The line loop alone: readStarsFromCatalog entered for one catalog, the  *)
(* line of every iteration kept in `line`.                                 *)
(***************************************************************************)
\* the catalogs init hands to readStarsFromCatalog
TypesRead(cats) ==
  IF eGaia \in cats THEN {eGaia}
  ELSE {t \in cats : t = eTycho2 => eTycho \notin cats}

GoodLine(s) == [n |-> 35, star |-> s, kinds |-> [c \in Columns |-> "number"]]

\* the records in memory when the catalog is opened: those of Hipparcos,
\* for a catalog read after it
StarsBefore(type, cats) ==
  IF type \in {eTycho, eTycho2} /\ eHipparcos \in cats
  THEN {<<>>, ParseLine(eHipparcos, GoodLine(1), TRUE)}
  ELSE {<<>>}

InitParse ==
  /\ mCatalogs \in SUBSET CatalogTypes
  /\ \E type \in TypesRead(mCatalogs) :
       /\ cur = [type |-> type, lineCount |-> 0, failed |-> FALSE, spin |-> 0]
       /\ mStars \in StarsBefore(type, mCatalogs)
       /\ log = << Event("cacheMiss", NoCat), Event("open", type) >>
  /\ origin = [i \in 1..Len(mStars) |-> FromLine(eHipparcos, GoodLine(1))]
  /\ crossRefs = {}
  /\ pc = "lines"
  /\ line = NoLine
  /\ written = NoWrite
  /\ cacheFile = NoFile
  /\ taken = <<>>
  /\ paths = DefaultPaths(mCatalogs)
  /\ RenderInit

ParseStep == \E ln \in Lines : LineLoop(ln) /\ line' = ln /\ UNCHANGED taken

NextParse ==
  \/ ParseStep
  \/ CloseCatalog

SpecParse == InitParse /\ [][NextParse]_vars

(***************************************************************************)
(* The cache alone: a run that is about to write its records, and the      *)
(* next run, configured with any catalog set, that reads the file.         *)
(***************************************************************************)
RoundTripStars ==
  {Star(v, v + 650, a, -175, p) : v \in {-1500, 5000}, a \in {0, 6284}, p \in {0, 100000}}

RECURSIVE SeqsUpTo(_, _)
SeqsUpTo(S, k) ==
  IF k = 0 THEN {<<>>}
  ELSE LET shorter == SeqsUpTo(S, k - 1)
       IN  shorter \cup {Append(q, x) : q \in shorter, x \in S}

InitCache ==
  /\ mCatalogs \in SUBSET CatalogTypes
  /\ \/ /\ pc = "write"
        /\ mStars \in SeqsUpTo(RoundTripStars, MaxRecords) \ {<<>>}
        /\ written = NoWrite
     \/ /\ pc = "init"
        /\ mStars = <<>>
        /\ written \in {Written(v, c, CachedStars) :
                          v \in {cCacheVersion - 1, cCacheVersion, cCacheVersion + 1},
                          c \in SUBSET CatalogTypes}
  /\ cacheFile = FileOf(written)
  /\ origin = [i \in 1..Len(mStars) |-> FromLine(eHipparcos, GoodLine(1))]
  /\ crossRefs = {}
  /\ cur = NoCur
  /\ line = NoLine
  /\ log = <<>>
  /\ taken = <<>>
  /\ paths \in PathChoices(mCatalogs)
  /\ RenderInit

\* the process ends after init; the next run is a new Stars object
Restart ==
  /\ pc = "build"
  /\ log # <<>>
  /\ log[Len(log)].ev \in {"cacheWritten", "cacheWriteFailed"}
  /\ pc' = "init"
  /\ mCatalogs' \in SUBSET CatalogTypes
  /\ mStars' = <<>>
  /\ origin' = <<>>
  /\ log' = <<>>
  /\ paths' \in PathChoices(mCatalogs')
  /\ UNCHANGED <<cacheFile, crossRefs, cur, line, written, taken, renderVars, settings>>

NextCache ==
  \/ InitWriteCache
  \/ Restart
  \/ InitReadCache

SpecCache == InitCache /\ [][NextCache]_vars

(***************************************************************************)
(* The first steps of a run that finds a cache file an earlier run wrote,  *)
(* whole or cut short (a write that was interrupted, a file copied in      *)
(* part).                                                                  *)
(***************************************************************************)
\* the file and what is left of it when it ends after word k
Prefixes(file) == {SubSeq(file, 1, k) : k \in 1..Len(file)}

InitTruncated ==
  /\ mCatalogs \in SUBSET CatalogTypes
  /\ pc = "init"
  /\ mStars = <<>>
  /\ written \in {Written(v, c, CachedStars) :
                    v \in {cCacheVersion - 1, cCacheVersion}, c \in SUBSET CatalogTypes}
  /\ cacheFile \in Prefixes(FileOf(written))
  /\ origin = <<>>
  /\ crossRefs = {}
  /\ cur = NoCur
  /\ line = NoLine
  /\ log = <<>>
  /\ taken = <<>>
  /\ paths = DefaultPaths(mCatalogs)
  /\ RenderInit

NextTruncated ==
  \/ InitReadCache
  \/ BuildStarVAO
  \/ Do

SpecTruncated == InitTruncated /\ [][NextTruncated]_vars


(***************************************************************************)
(* buildStarVAO alone: init has its records and is about to build the      *)
(* vertex table; render calls follow.                                      *)
(***************************************************************************)
\* records in memory when the vertex table is built
MaxBuilt == 2

\* records brighter and fainter than magnitude 0, with color indexes below,
\* at, inside and above the range, and parallaxes negative, zero and positive
BuildStars ==
  {Star(v, v + bv, 1571, 0, p) :
     v \in {0 - 1460, 5000}, bv \in {0 - 1000, minIdx, 650, maxIdx, 3000},
     p \in {0 - 1000, 0, 100000, 500000}}

InitBuild ==
  /\ mCatalogs = {eHipparcos}
  /\ mStars \in SeqsUpTo(BuildStars, MaxBuilt)
  /\ origin = [i \in 1..Len(mStars) |-> FromCache]
  /\ IF mStars = <<>>
     THEN /\ written = NoWrite
          /\ log = << Event("cacheMiss", NoCat), Event("openFailed", eHipparcos),
                      Event("noStars", NoCat) >>
     ELSE /\ written = Written(cCacheVersion, mCatalogs, mStars)
          /\ log = << Event("cacheHit", NoCat) >>
  /\ cacheFile = FileOf(written)
  /\ crossRefs = {}
  /\ pc = "build"
  /\ cur = NoCur
  /\ line = NoLine
  /\ taken = <<>>
  /\ paths = DefaultPaths(mCatalogs)
  /\ RenderInit

NextBuild ==
  \/ BuildStarVAO
  \/ Do

SpecBuild == InitBuild /\ [][NextBuild]_vars

(***************************************************************************)
(* The shader variant: the object is constructed, the settings are changed *)
(* and render calls are made in any order.                                 *)
(***************************************************************************)
InitRender ==
  /\ mCatalogs = {eHipparcos}
  /\ mStars \in {<<>>, CachedStars}
  /\ origin = [i \in 1..Len(mStars) |-> FromCache]
  /\ IF mStars = <<>>
     THEN /\ written = NoWrite
          /\ log = << Event("cacheMiss", NoCat), Event("openFailed", eHipparcos),
                      Event("noStars", NoCat) >>
     ELSE /\ written = Written(cCacheVersion, mCatalogs, mStars)
          /\ log = << Event("cacheHit", NoCat) >>
  /\ cacheFile = FileOf(written)
  /\ crossRefs = {}
  /\ pc = "done"
  /\ cur = NoCur
  /\ line = NoLine
  /\ taken = <<>>
  /\ paths = DefaultPaths(mCatalogs)
  /\ mStarVBO = BuildData(mStars)
  /\ mLoadedMinMagnitude = LoadedMin(FloatMax, mStars)
  /\ mLoadedMaxMagnitude = LoadedMax(FloatMin, mStars)
  /\ mShaderDirty = TRUE
  /\ mDrawMode \in {eSmoothPoint, eSmoothDisc}
  /\ mEnableHDR = TRUE
  /\ mStarShader = NoShader
  /\ compiles = 0
  /\ drawn = <<>>
  /\ settings = SettingsInit

SetDrawMode == \E value \in DrawModes : setDrawMode(value)

SetEnableHDR == \E value \in BOOLEAN : setEnableHDR(value)

SetSolidAngle == \E value \in SettingValues.mSolidAngle : setSolidAngle(value)

SetMinMagnitude == \E value \in SettingValues.mMinMagnitude : setMinMagnitude(value)

SetMaxMagnitude == \E value \in SettingValues.mMaxMagnitude : setMaxMagnitude(value)

SetLuminanceMultiplicator == \E value \in SettingValues.mLuminanceMultiplicator : setLuminanceMultiplicator(value)

SetBackgroundColor1 == \E value \in SettingValues.mBackgroundColor1 : setBackgroundColor1(value)

SetBackgroundColor2 == \E value \in SettingValues.mBackgroundColor2 : setBackgroundColor2(value)

NextRender ==
  \/ SetDrawMode
  \/ SetEnableHDR
  \/ SetSolidAngle
  \/ SetMinMagnitude
  \/ SetMaxMagnitude
  \/ SetLuminanceMultiplicator
  \/ SetBackgroundColor1
  \/ SetBackgroundColor2
  \/ Do

SpecRender == InitRender /\ [][NextRender]_vars

(***************************************************************************)
(* Stars::init with the lines of the catalog files kept: a first run (no   *)
(* cache file), the catalogs are Hipparcos and Tycho, the files hold a few *)
(* known lines.                                                            *)
(***************************************************************************)
\* a line without parallax, and a line too short for the columns of Hipparcos
NoParallaxLine(s) == [GoodLine(s) EXCEPT !.kinds[ePara] = "blank"]
ShortLine(s) == [GoodLine(s) EXCEPT !.n = 13]

KnownLines == {GoodLine(1), NoParallaxLine(2), ShortLine(2)}

InitLoad == Init /\ mCatalogs \subseteq {eHipparcos, eTycho} /\ cacheFile = NoFile

TakeLine ==
  \E ln \in KnownLines : LineLoop(ln) /\ taken' = Append(taken, ln) /\ UNCHANGED line

NextLoad ==
  \/ InitReadCache
  \/ FindGaia
  \/ FindHipparcos
  \/ FindTycho
  \/ FindTycho2
  \/ TakeLine
  \/ CloseCatalog
  \/ InitWriteCache
  \/ BuildStarVAO
  \/ Do

SpecLoad == InitLoad /\ [][NextLoad]_vars

(***************************************************************************)
(* The line loop as a running program: the loop goes on as long as a step  *)
(* of it can be taken, and a read of the stream may fail without reaching  *)
(* the end of the file.                                                    *)
(***************************************************************************)
\* one iteration of the loop over a line of the file
StreamStep == \E ln \in KnownLines : LineLoop(ln) /\ line' = ln /\ UNCHANGED taken

NextStream ==
  \/ StreamStep
  \/ StreamFails
  \/ FailedRead
  \/ CloseCatalog

SpecStream == InitParse /\ [][NextStream]_vars /\ WF_vars(NextStream)


(***************************************************************************)
(* Properties                                                              *)
(***************************************************************************)
LastEvent == IF log = <<>> THEN "none" ELSE log[Len(log)].ev
FirstEvent == IF log = <<>> THEN "none" ELSE log[1].ev

\* the catalog types whose bit is set in a bitmask
BitSet(mask) == {t \in CatalogTypes : (mask \div (2 ^ t)) % 2 = 1}

\* readStarCache has just returned
JustRead == LastEvent \in {"cacheHit", "cacheMiss"}

\* C1: a cache written with the compiled cache version and read back by a run
\* configured with the same catalog set is a hit, and the records appended are
\* the records written, field for field and in the same order.
C1_RoundTrip ==
  (JustRead /\ written # NoWrite /\ written.version = cCacheVersion
     /\ written.cats = mCatalogs)
    => (LastEvent = "cacheHit" /\ mStars = written.stars)

\* a hit on a file this run sequence wrote itself: two different records, the
\* first with negative magnitudes
C1_Witness ==
  /\ JustRead
  /\ LastEvent = "cacheHit"
  /\ written.stars # CachedStars
  /\ Len(mStars) = 2
  /\ mStars[1].mVMagnitude < 0
  /\ mStars[2].mVMagnitude > 0
  /\ mStars[1].mParallax # mStars[2].mParallax

\* C2: a cache file whose version differs from cCacheVersion, or whose catalog
\* bitmask differs from the one of the configured catalog set, is a miss and no
\* record is appended.
C2_Invalidation ==
  (JustRead /\ cacheFile # NoFile
     /\ (cacheFile[1] # cCacheVersion \/ BitSet(cacheFile[2]) # mCatalogs))
    => (LastEvent = "cacheMiss" /\ mStars = <<>> /\ pc = "catalogs")

\* a miss on a file of the right version that holds records of other catalogs
C2_Witness ==
  /\ JustRead
  /\ cacheFile # NoFile
  /\ cacheFile[1] = cCacheVersion
  /\ BitSet(cacheFile[2]) # mCatalogs
  /\ cacheFile[3] > 0
  /\ LastEvent = "cacheMiss"
  /\ mStars = <<>>


\* the run missed the cache
Missed == FirstEvent = "cacheMiss"

\* init is past the catalogs
Loaded == pc \in {"write", "build", "done"}

\* readStarsFromCatalog was called for the catalog
Called(type) ==
  \E i \in 1..Len(log) : log[i].ev \in {"open", "openFailed"} /\ log[i].arg = type

\* the catalog file was opened and its lines were read
Parsed(type) == \E i \in 1..Len(log) : log[i] = Event("open", type)

Logged(ev) == \E i \in 1..Len(log) : log[i].ev = ev

\* C3: the cache is read before any catalog is opened; after a hit no catalog
\* is parsed, no cache is written and the records are those of the cache;
\* catalogs are parsed only after a miss.
C3_CacheFirst ==
  /\ pc # "init" => FirstEvent \in {"cacheHit", "cacheMiss"}
  /\ \A i \in 1..Len(log) :
       log[i].ev \in {"open", "openFailed", "cacheWritten", "cacheWriteFailed"}
         => (i > 1 /\ Missed)
  /\ FirstEvent = "cacheHit"
       => /\ log = << Event("cacheHit", NoCat) >>
          /\ pc \in {"build", "done"}
          /\ mStars = written.stars
          /\ \A i \in 1..Len(origin) : origin[i] = FromCache
          /\ cacheFile = FileOf(written)
  /\ pc \in {"catalogs", "hipparcos", "tycho", "tycho2", "lines", "crashed", "write"}
       => Missed

\* a hit of a run with two catalogs configured: the records of the cache, in
\* their order
C3_Witness ==
  /\ pc = "build"
  /\ FirstEvent = "cacheHit"
  /\ Cardinality(mCatalogs) >= 2
  /\ Len(mStars) >= 2
  /\ mStars[1] # mStars[2]

\* C4 (as claimed): after a miss a cache file is written if and only if
\* parsing produced at least one record.
C4_Original ==
  (pc \in {"build", "done"} /\ Missed) => (Logged("cacheWritten") <=> mStars # <<>>)

\* C4 (amended): after a miss init calls writeStarCache if and only if parsing
\* produced at least one record; the call writes the file when the file can be
\* opened for writing and leaves the old file otherwise; a file written holds
\* the compiled version, the bitmask of the configured catalogs, the number of
\* records in memory and five words per record.
C4_WriteIffRecords ==
  (pc \in {"build", "done"} /\ Missed) =>
    /\ mStars # <<>> <=> LastEvent \in {"cacheWritten", "cacheWriteFailed"}
    /\ mStars = <<>> <=> LastEvent = "noStars"
    /\ LastEvent = "cacheWritten" =>
         /\ cacheFile # NoFile
         /\ cacheFile[1] = cCacheVersion
         /\ BitSet(cacheFile[2]) = mCatalogs
         /\ cacheFile[3] = Len(mStars)
         /\ Len(cacheFile) = 3 + 5 * Len(mStars)
    /\ LastEvent # "cacheWritten" =>
         (cacheFile = FileOf(written) /\ written \in {NoWrite} \cup EarlierRuns(mCatalogs))

\* a cache written for three records of two catalogs
C4_Witness ==
  /\ pc = "build"
  /\ Missed
  /\ LastEvent = "cacheWritten"
  /\ Len(mStars) = 3
  /\ cacheFile[3] = 3
  /\ Cardinality(mCatalogs) = 2

Records(P(_)) == {i \in 1..Len(origin) : P(origin[i])}

OfHipparcos(s) == {i \in 1..Len(origin) : origin[i].star = s /\ origin[i].type = eHipparcos}

\* the records of star s that Hipparcos gave or that cross-reference Hipparcos
Known(s) ==
  {i \in 1..Len(origin) :
     origin[i].star = s /\ (origin[i].type = eHipparcos \/ origin[i].hippInt)}

\* C6: with Hipparcos and a secondary catalog configured and parsed, a star of
\* Hipparcos whose secondary line carries a Hipparcos id that parses as an
\* integer has exactly one record, the one of Hipparcos: no line of a secondary
\* catalog that carries such an id leaves a record.
C6_Deduplication ==
  (Loaded /\ Missed /\ eHipparcos \in mCatalogs) =>
    /\ \A i \in 1..Len(origin) : origin[i].type # eHipparcos => ~origin[i].hippInt
    /\ \A s \in crossRefs :
         Cardinality(OfHipparcos(s)) = 1 => Cardinality(Known(s)) = 1

\* Hipparcos gave star 1, Tycho or Tycho2 was parsed and its line of star 1
\* carries a Hipparcos id; a star without an id was loaded from it too
C6_Witness ==
  /\ pc = "build"
  /\ Parsed(eHipparcos)
  /\ Parsed(eTycho) \/ Parsed(eTycho2)
  /\ 1 \in crossRefs
  /\ Cardinality(OfHipparcos(1)) = 1
  /\ Cardinality(Known(1)) = 1
  /\ \E i \in 1..Len(origin) : origin[i].type \in {eTycho, eTycho2}

\* the secondary catalogs of a record sequence come after Hipparcos, in the
\* order Hipparcos, Tycho, Tycho2
InCatalogOrder ==
  \A i, j \in 1..Len(origin) : i < j => origin[i].type <= origin[j].type

GaiaCombined == eGaia \in mCatalogs /\ Cardinality(mCatalogs) > 1

\* C9 (as claimed): Gaia configured with another catalog is skipped: its file
\* is not parsed, it gives no record, and a message is logged.
C9_Original ==
  (Loaded /\ Missed /\ GaiaCombined) =>
    /\ ~Called(eGaia)
    /\ \A i \in 1..Len(origin) : origin[i].type # eGaia
    /\ Logged("gaiaCombined")

\* C9 (amended): Gaia configured with another catalog is not skipped: after a
\* miss Gaia is the only catalog handed to readStarsFromCatalog, every record
\* loaded is one of Gaia, and the message is logged once Gaia was read.
C9_GaiaRead ==
  (Missed /\ GaiaCombined) =>
    /\ \A t \in CatalogTypes \ {eGaia} : ~Called(t)
    /\ \A i \in 1..Len(origin) : origin[i].type = eGaia
    /\ pc # "catalogs" /\ pc # "init" => Called(eGaia)
    /\ Loaded <=> Logged("gaiaCombined")
    /\ ~Logged("tycho2Skipped")

\* Gaia configured with Tycho: two records of Gaia loaded, the message logged
C9_Witness ==
  /\ pc = "build"
  /\ eGaia \in mCatalogs
  /\ eTycho \in mCatalogs
  /\ Len(origin) = 2
  /\ \A i \in 1..Len(origin) : origin[i].type = eGaia
  /\ Logged("gaiaCombined")

\* C10: Gaia configured with other catalogs: none of the others is parsed, a
\* message is logged and load goes on to its end with the records of Gaia only.
C10_Original ==
  (Missed /\ GaiaCombined) =>
    /\ \A t \in CatalogTypes \ {eGaia} : ~Called(t)
    /\ \A i \in 1..Len(origin) : origin[i].type = eGaia
    /\ Loaded => Logged("gaiaCombined")
    /\ pc # "crashed"


\* a line was taken from the file: the parser went on to the next line, or
\* the process ended in the line; line' is the line taken
LineTaken == pc = "lines" /\ (cur'.lineCount = cur.lineCount + 1 \/ pc' = "crashed")

\* the line has a token in the column of the catalog
HasToken(type, ln, col) == ColumnOf(type, col) >= 0 /\ ColumnOf(type, col) < ln.n

\* the token of the column is there and is a number
TokenParses(type, ln, col) == HasToken(type, ln, col) /\ ln.kinds[col] = "number"

FourParse(type, ln) == \A c \in {eVmag, eBmag, eRect, eDecl} : TokenParses(type, ln, c)

\* the line is one the de-duplication rule (C6) leaves out
Deduplicated(type, ln) ==
  type # eHipparcos /\ eHipparcos \in mCatalogs /\ TokenParses(type, ln, eHipp)

Appended == Len(mStars') - Len(mStars)

\* C7 (read with the de-duplication rule of C6): every line of at least 13
\* tokens that the rule does not leave out appends exactly one record when
\* visual magnitude, blue magnitude, ascension and declination parse as floats
\* and none when one of them does not; the parallax of the record is 0 when its
\* token is absent or does not parse; a line of fewer than 13 tokens appends
\* none; in every case the parser goes on with the next line.
C7_Original ==
  [][LineTaken =>
       /\ pc' = "lines"
       /\ line'.n < 13 => Appended = 0
       /\ (line'.n >= 13 /\ ~Deduplicated(cur.type, line')) =>
            /\ FourParse(cur.type, line') => Appended = 1
            /\ ~FourParse(cur.type, line') => Appended = 0
            /\ (Appended = 1 /\ ~TokenParses(cur.type, line', ePara))
                 => mStars'[Len(mStars')].mParallax = 0]_vars

\* the same, without the lines too short for a column the catalog reads
C7_LongLines ==
  [][(LineTaken /\ OutOfRange(cur.type, line', eHipparcos \in mCatalogs) = {}) =>
       /\ pc' = "lines"
       /\ line'.n < 13 => Appended = 0
       /\ (line'.n >= 13 /\ ~Deduplicated(cur.type, line')) =>
            /\ FourParse(cur.type, line') => Appended = 1
            /\ ~FourParse(cur.type, line') => Appended = 0
            /\ (Appended = 1 /\ ~TokenParses(cur.type, line', ePara))
                 => mStars'[Len(mStars')].mParallax = 0]_vars


\* the step is a render call
Frame == Len(drawn') = Len(drawn) + 1

\* the step is a call of setDrawMode or setEnableHDR with a new value
SettingChanged == mDrawMode' # mDrawMode \/ mEnableHDR' # mEnableHDR

\* C11: setDrawMode or setEnableHDR with a value that differs from the current
\* one sets mShaderDirty, and nothing else does (a call with the current value
\* changes nothing); a render call made when the shaders are not dirty, as
\* every render call after one that compiled and with the settings unchanged
\* since, compiles nothing and leaves them not dirty.
C11_DirtyFlag ==
  [][/\ SettingChanged => mShaderDirty'
     /\ (mShaderDirty' /\ ~mShaderDirty) => SettingChanged
     /\ (~Frame /\ ~SettingChanged) => UNCHANGED renderVars
     /\ (Frame /\ ~mShaderDirty) =>
          (compiles' = compiles /\ mStarShader' = mStarShader /\ ~mShaderDirty')]_vars

\* three render calls and two setting changes, two of the calls compiled
C11_Witness ==
  /\ Len(drawn) = MaxFrames
  /\ compiles = 2
  /\ ~mShaderDirty
  /\ mStarShader = ShaderFor(FALSE, eSprite)

\* C12: setDrawMode and setEnableHDR leave the shader program as it is; only a
\* render call compiles, and it does so exactly once when the shaders are
\* dirty, for the settings then in force, whatever the number of changes made
\* since the render call before; after every render call the shaders are not
\* dirty and are those of the settings.
C12_LazyCompile ==
  [][/\ SettingChanged => (compiles' = compiles /\ mStarShader' = mStarShader)
     /\ compiles' # compiles => Frame
     /\ (Frame /\ mShaderDirty) =>
          (compiles' = compiles + 1 /\ mStarShader' = ShaderFor(mEnableHDR, mDrawMode))
     /\ Frame => ~mShaderDirty'
     /\ ~mShaderDirty' => mStarShader' = ShaderFor(mEnableHDR', mDrawMode')]_vars

\* both settings were changed after the first render call and the second
\* render call compiled once, for both
C12_Witness ==
  /\ Len(drawn) = 2
  /\ compiles = 2
  /\ ~mShaderDirty
  /\ mEnableHDR = FALSE
  /\ mDrawMode = ePoint
  /\ mStarShader = ShaderFor(FALSE, ePoint)


\* the color index of record i, and the color of its vertex (0xRRGGBB)
ColorIndex(i) == mStars[i].mBMagnitude - mStars[i].mVMagnitude
Element(i, k) == mStarVBO[iElementCount * (i - 1) + k]
VertexColor(i) == Element(i, 4) * 65536 + Element(i, 5) * 256 + Element(i, 6)

\* the vertex table was built
Built == pc = "done"

\* C13: a record whose color index is exactly -0.4 has the color of the first
\* entry of the spectral color table, and a record whose color index is
\* exactly 2.0 has the color of the last entry.
C13_Original ==
  Built =>
    \A i \in 1..Len(mStars) :
      /\ ColorIndex(i) = minIdx => VertexColor(i) = mSpectralColors[1]
      /\ ColorIndex(i) = maxIdx => VertexColor(i) = mSpectralColors[Len(mSpectralColors)]

\* what the code gives: the color index 2.0 has entry 20 (from 0) of the 47
C13_Bucket20 ==
  Built =>
    \A i \in 1..Len(mStars) :
      /\ ColorIndex(i) = minIdx => VertexColor(i) = mSpectralColors[1]
      /\ ColorIndex(i) = maxIdx => VertexColor(i) = mSpectralColors[21]


TableColors == {mSpectralColors[k] : k \in 1..Len(mSpectralColors)}

\* C14: for every record, whatever its magnitudes, the bucket the vertex
\* builder computes is an index of the spectral color table
\* (0 <= bucket < table size), and the color of its vertex is an entry of it.
C14_BucketInTable ==
  \A i \in 1..Len(mStars) :
    /\ Bucket(mStars[i]) >= 0
    /\ Bucket(mStars[i]) < Len(mSpectralColors)
    /\ Built => VertexColor(i) \in TableColors

\* a table built from a record with a color index below -0.4 and one with a
\* color index above 2.0
C14_Witness ==
  /\ Built
  /\ Len(mStars) = 2
  /\ ColorIndex(1) < minIdx
  /\ ColorIndex(2) > maxIdx
  /\ VertexColor(1) = mSpectralColors[1]
  /\ VertexColor(2) \in TableColors


\* C15: the distance of the vertex of a record with parallax > 0 is
\* 1000 / parallax parsecs (2 parsecs for 500 mas, 10 parsecs for 100 mas); the
\* distance of the vertex of a record with parallax <= 0 is the fallback of
\* 100000 parsecs; every record has its vertex whatever its parallax.
C15_Distance ==
  Built =>
    /\ Len(mStarVBO) = iElementCount * Len(mStars)
    /\ \A i \in 1..Len(mStars) :
         /\ mStars[i].mParallax > 0 =>
              /\ Element(i, 3) = (1000000 * 1000) \div mStars[i].mParallax
              /\ Element(i, 3) > 0
         /\ mStars[i].mParallax = 500000 => Element(i, 3) = 2000
         /\ mStars[i].mParallax = 100000 => Element(i, 3) = 10000
         /\ mStars[i].mParallax <= 0 => Element(i, 3) = 100000000

\* a record of 500 mas at 2 parsecs and a record of negative parallax at the
\* fallback distance
C15_Witness ==
  /\ Built
  /\ Len(mStars) = 2
  /\ mStars[1].mParallax = 500000
  /\ Element(1, 3) = 2000
  /\ mStars[2].mParallax < 0
  /\ Element(2, 3) = FallbackDistance


\* C16: the vertex table has exactly one vertex of 7 elements per record, in
\* the order of the records, laid out as declination, ascension, distance, red,
\* green, blue, magnitude; every render call draws as many points as there are
\* records.
C16_VertexTable ==
  /\ Built =>
       /\ Len(mStarVBO) = iElementCount * Len(mStars)
       /\ \A i \in 1..Len(mStars) :
            /\ Element(i, 1) = mStars[i].mDeclination
            /\ Element(i, 2) = mStars[i].mAscension
            /\ Element(i, 3) \in {FallbackDistance, (1000000 * 1000) \div Max(1, mStars[i].mParallax)}
            /\ VertexColor(i) \in TableColors
            /\ Element(i, 7) = mStars[i].mVMagnitude
  /\ \A f \in 1..Len(drawn) : Built /\ drawn[f] = Len(mStars)

\* two different records, their vertexes in the order of the records, and a
\* render call that drew two points
C16_Witness ==
  /\ Built
  /\ Len(mStars) = 2
  /\ mStars[1].mVMagnitude # mStars[2].mVMagnitude
  /\ Element(1, 7) = mStars[1].mVMagnitude
  /\ Element(2, 7) = mStars[2].mVMagnitude
  /\ Len(mStarVBO) = 14
  /\ drawn = <<2>>


\* C17: after the vertex table is built from a record set that is not empty,
\* mLoadedMinMagnitude and mLoadedMaxMagnitude are the smallest and the largest
\* visual magnitude among the records, also when all magnitudes are negative.
C17_Original ==
  (Built /\ mStars # <<>>) =>
    /\ \E i \in 1..Len(mStars) : mStars[i].mVMagnitude = mLoadedMinMagnitude
    /\ \A i \in 1..Len(mStars) : mStars[i].mVMagnitude >= mLoadedMinMagnitude
    /\ \E i \in 1..Len(mStars) : mStars[i].mVMagnitude = mLoadedMaxMagnitude
    /\ \A i \in 1..Len(mStars) : mStars[i].mVMagnitude <= mLoadedMaxMagnitude

\* what the code gives: the minimum is that of the records, the maximum is
\* that of the records and of the smallest positive float it starts from
C17_MaxFromFloatMin ==
  (Built /\ mStars # <<>>) =>
    /\ \E i \in 1..Len(mStars) : mStars[i].mVMagnitude = mLoadedMinMagnitude
    /\ \A i \in 1..Len(mStars) : mStars[i].mVMagnitude >= mLoadedMinMagnitude
    /\ \A i \in 1..Len(mStars) : mStars[i].mVMagnitude <= mLoadedMaxMagnitude
    /\ mLoadedMaxMagnitude >= FloatMin
    /\ \/ mLoadedMaxMagnitude = FloatMin
       \/ \E i \in 1..Len(mStars) : mStars[i].mVMagnitude = mLoadedMaxMagnitude

\* the calls of readStarsFromCatalog for the catalog
CallsOf(type) ==
  {i \in 1..Len(log) : log[i].ev \in {"open", "openFailed"} /\ log[i].arg = type}

OpenFailed(type) == \E i \in 1..Len(log) : log[i] = Event("openFailed", type)

\* the catalogs init hands to readStarsFromCatalog when Gaia is not configured
Remaining(cats) == {t \in cats : t = eTycho2 => eTycho \notin cats}

C19_NoStars ==
  (Missed /\ mStars = <<>>) =>
    /\ pc \in {"build", "done"} =>
         /\ Logged("noStars")
         /\ ~Logged("cacheWritten") /\ ~Logged("cacheWriteFailed")
         /\ written \in {NoWrite} \cup EarlierRuns(mCatalogs)
         /\ cacheFile = FileOf(written)
    /\ Built => mStarVBO = <<>>
    /\ \A f \in 1..Len(drawn) : Built /\ drawn[f] = 0

\* Hipparcos was read and gave no record; two render calls drew nothing
C19_Witness ==
  /\ Built
  /\ Missed
  /\ mCatalogs = {eHipparcos}
  /\ Parsed(eHipparcos)
  /\ mStars = <<>>
  /\ LastEvent = "noStars"
  /\ mStarVBO = <<>>
  /\ drawn = <<0, 0>>

\* nothing configured: the same
C19_WitnessNoCatalog ==
  /\ Built
  /\ Missed
  /\ mCatalogs = {}
  /\ LastEvent = "noStars"
  /\ drawn = <<0>>


\* the run of the example: Hipparcos alone, no cache file, a file of one line
\* (visual magnitude 5.0, blue magnitude 5.65, ascension 90, declination 0,
\* parallax 100)
OneLineRun ==
  /\ mCatalogs = {eHipparcos}
  /\ FirstEvent = "cacheMiss"
  /\ taken = << GoodLine(1) >>
  /\ TokenValue(1, eVmag) = 5000 /\ TokenValue(1, eBmag) - TokenValue(1, eVmag) = 650
  /\ TokenValue(1, eRect) = 90000 /\ TokenValue(1, eDecl) = 0
  /\ TokenValue(1, ePara) = 100000

\* the header of the cache file
Header(file) == IF Len(file) >= 3 THEN SubSeq(file, 1, 3) ELSE <<>>

\* the entry of the table (from 0) for the color index 0.65:
\* (0.65 + 0.4) / 2.4 / 0.05 + 0.5 = 9.25
MidBucket == (650 + 400 + 60) \div 120

\* one record, one vertex at 10 parsecs with the color of the bucket of 0.65
OneRecordOneVertex ==
  /\ Len(mStars) = 1
  /\ mStars[1].mVMagnitude = 5000 /\ mStars[1].mBMagnitude = 5650
  /\ mStars[1].mParallax = 100000
  /\ Len(mStarVBO) = iElementCount
  /\ Element(1, 3) = 10000
  /\ VertexColor(1) = mSpectralColors[MidBucket + 1]

\* C20 (as claimed): the run of the example loads exactly one record, writes a
\* cache file with the header {cCacheVersion, Hipparcos only, 1}, and builds
\* exactly one vertex, at 10 parsecs and with the color of the bucket of 0.65.
C20_Original ==
  (Built /\ OneLineRun) =>
    /\ OneRecordOneVertex
    /\ Header(cacheFile) = << cCacheVersion, 1, 1 >>

\* C20 (amended): the same, the cache file being written when it can be opened
\* for writing; when it cannot, an error is logged, there is no cache file
\* and the record and the vertex are the same.
C20_EndToEnd ==
  (Built /\ OneLineRun) =>
    /\ OneRecordOneVertex
    /\ Logged("cacheWritten") \/ Logged("cacheWriteFailed")
    /\ Logged("cacheWritten") =>
         /\ Header(cacheFile) = << cCacheVersion, 1, 1 >>
         /\ Len(cacheFile) = 3 + 5
    /\ Logged("cacheWriteFailed") => cacheFile = NoFile

\* the run of the example, the cache file written, the table built
C20_Witness ==
  /\ Built
  /\ OneLineRun
  /\ Logged("cacheWritten")
  /\ Header(cacheFile) = << cCacheVersion, 1, 1 >>
  /\ Len(mStarVBO) = iElementCount


\* the step is a render call that compiled the shaders
Recompiled == compiles' = compiles + 1

\* the DRAWMODE_ flag of every draw mode, in the order of the enum
DrawModeFlags ==
  << "DRAWMODE_POINT", "DRAWMODE_SMOOTH_POINT", "DRAWMODE_DISC", "DRAWMODE_SMOOTH_DISC",
     "DRAWMODE_SPRITE" >>

AllDrawModeFlags == {DrawModeFlags[k] : k \in 1..Len(DrawModeFlags)}

\* C21: every recompilation selects, from the settings in force, the
\* one-pixel vertex and fragment sources without geometry stage for ePoint and
\* eSmoothPoint, and the vertex, geometry and fragment sources for eDisc,
\* eSmoothDisc and eSprite; the defines hold exactly one DRAWMODE_ flag, that
\* of the draw mode, and ENABLE_HDR exactly when HDR is enabled.
C21_ShaderSources ==
  [][Recompiled =>
       /\ mDrawMode \in {ePoint, eSmoothPoint} =>
            mStarShader'.stages = {"cStarsVertOnePixel", "cStarsFragOnePixel"}
       /\ mDrawMode \in {eDisc, eSmoothDisc, eSprite} =>
            mStarShader'.stages = {"cStarsVert", "cStarsGeom", "cStarsFrag"}
       /\ mStarShader'.defines \cap AllDrawModeFlags = {DrawModeFlags[mDrawMode + 1]}
       /\ ("ENABLE_HDR" \in mStarShader'.defines) <=> mEnableHDR
       /\ mStarShader'.defines \subseteq AllDrawModeFlags \cup {"ENABLE_HDR"}]_vars

\* compiled for a disc mode with HDR first, then for ePoint without HDR
C21_Witness ==
  /\ compiles = 2
  /\ mDrawMode = ePoint
  /\ ~mEnableHDR
  /\ mStarShader.stages = {"cStarsVertOnePixel", "cStarsFragOnePixel"}
  /\ mStarShader.defines = {"DRAWMODE_POINT"}


\* C30: setSolidAngle, setMinMagnitude, setMaxMagnitude,
\* setLuminanceMultiplicator, setBackgroundColor1 and setBackgroundColor2
\* leave the dirty flag, the draw mode, the HDR flag and the compiled shaders
\* as they are; once init has returned, no setter and no render call changes
\* the records or the vertex table.
C30_Frame ==
  [][/\ settings' # settings =>
          UNCHANGED <<mShaderDirty, mDrawMode, mEnableHDR, mStarShader, compiles>>
     /\ pc = "done" => UNCHANGED <<mStars, mStarVBO>>]_vars

\* every one of the six values was set to a new one around two render calls
\* of which only the first compiled, over a vertex table that is not empty
C30_Witness ==
  /\ \A f \in DOMAIN settings : settings[f] # SettingsInit[f]
  /\ Len(drawn) = 2
  /\ compiles = 1
  /\ ~mShaderDirty
  /\ mStarVBO # <<>>


\* the (drawMode, hdrEnabled) pair the shaders were compiled with, and the
\* pair of the settings
CompiledKey == << mStarShader.mode, mStarShader.hdr >>
CurrentKey == << mDrawMode, mEnableHDR >>

\* C22 (as claimed): a render call made after a compilation recompiles only
\* if the (drawMode, hdrEnabled) pair of the settings differs from the pair the
\* shaders were last compiled with; when the pair is the same it does not
\* recompile.
C22_Original ==
  [][(Frame /\ compiles >= 1) =>
       /\ Recompiled => CurrentKey # CompiledKey
       /\ CurrentKey = CompiledKey => compiles' = compiles]_vars

\* C22 (amended): a render call made after a compilation recompiles exactly
\* when the shaders are dirty, that is when a setDrawMode or setEnableHDR call
\* since the last render call changed a value, also when later calls brought
\* the pair back to the one compiled with; a pair that differs from the
\* compiled one always recompiles, and the recompilation is for the pair of the
\* settings.
C22_DirtyMemo ==
  [][(Frame /\ compiles >= 1) =>
       /\ Recompiled <=> mShaderDirty
       /\ ~mShaderDirty => compiles' = compiles
       /\ CurrentKey # CompiledKey => Recompiled
       /\ Recompiled => << mStarShader'.mode, mStarShader'.hdr >> = CurrentKey]_vars

\* three render calls, the first compiled, one of the others recompiled and
\* one did not
C22_Witness ==
  /\ Len(drawn) = 3
  /\ compiles = 2
  /\ ~mShaderDirty
  /\ CompiledKey = << eSmoothDisc, TRUE >>
  /\ CurrentKey = CompiledKey

\* C25: until the first render call the shaders are dirty and nothing is
\* compiled, so the first render call compiles; whenever the shaders are not
\* dirty the (drawMode, hdrEnabled) pair they were compiled with is that of the
\* settings; every render call leaves, for its draw, a program compiled for
\* the settings of that call.
C25_ShaderInvariant ==
  /\ [](/\ drawn = <<>> => (mShaderDirty /\ compiles = 0 /\ mStarShader = NoShader)
        /\ drawn # <<>> => (compiles >= 1 /\ mStarShader # NoShader)
        /\ ~mShaderDirty => CompiledKey = CurrentKey)
  /\ [][Frame =>
          /\ drawn = <<>> => Recompiled
          /\ mStarShader' # NoShader
          /\ << mStarShader'.mode, mStarShader'.hdr >> = << mDrawMode, mEnableHDR >>
          /\ UNCHANGED << mDrawMode, mEnableHDR >>]_vars

\* every one of three render calls compiled, the last for eDisc without HDR
C25_Witness ==
  /\ Len(drawn) = MaxFrames
  /\ compiles = MaxFrames
  /\ ~mShaderDirty
  /\ CompiledKey = << eDisc, FALSE >>
  /\ CurrentKey = << eDisc, FALSE >>


\* the indexes the parser reads items[] at, for the line taken in the step
IndexesUsed ==
  {ColumnOf(cur.type, c) : c \in UsedColumns(cur.type, eHipparcos \in mCatalogs)}

\* C23: for every catalog type and every line that passes the size check (13
\* tokens or more), every column index the parser reads the line at is smaller
\* than the number of tokens of the line, and the line is never left by an
\* access past its end.
C23_Original ==
  [][(LineTaken /\ line'.n >= 13) =>
       /\ \A index \in IndexesUsed : index < line'.n
       /\ ~(pc' = "crashed" /\ log'[Len(log')].arg >= line'.n)]_vars

\* C24: for every catalog type and every configured catalog set, the index -1
\* of an absent column is never among the indexes the parser reads a line at,
\* for the parallax column and for the Hipparcos-id column alike.
C24_Original ==
  [][(LineTaken /\ line'.n >= 13) =>
       /\ \A index \in IndexesUsed : index >= 0
       /\ ~(pc' = "crashed" /\ log'[Len(log')].arg < 0)]_vars


\* the line is long enough for every column of the catalog and its four
\* fields parse
ValidLine(type, ln) ==
  /\ \A c \in Columns : ColumnOf(type, c) < ln.n
  /\ FourParse(type, ln)

\* C27: a line of a secondary catalog is left out because of its Hipparcos id
\* only when Hipparcos was loaded: when Hipparcos is configured and its file
\* could not be opened, every valid line of Tycho that was read has its record,
\* with or without a Hipparcos id.
C27_Original ==
  (Loaded /\ Missed /\ OpenFailed(eHipparcos) /\ Parsed(eTycho)) =>
    \A k \in 1..Len(taken) :
      ValidLine(eTycho, taken[k]) =>
        \E i \in 1..Len(origin) :
          origin[i].type = eTycho /\ origin[i].star = taken[k].star


\* C28: for every catalog file that could be opened the line loop eventually
\* ends and readStarsFromCatalog returns, also when a read fails before the
\* end of the file is reached.
C28_Original == <>(pc # "lines")


\* C26: readStarCache reports a hit with its records only if the file holds
\* the header and five floats for every record appended (12 + 20 * count
\* bytes, 3 + 5 * count words); a file cut short is not a hit, and no record
\* in memory is one that was not read from the file.
C26_Original ==
  FirstEvent = "cacheHit" =>
    /\ Len(cacheFile) >= 3 + 5 * Len(mStars)
    /\ \A i \in 1..Len(mStars) :
         \A unread \in UnreadStars : mStars[i] = ReadStar(cacheFile, i - 1, unread)


\* the version and the bitmask of the cache file are those of this build and
\* of the configured catalog types
KeyMatches ==
  /\ cacheFile # NoFile
  /\ cacheFile[1] = cCacheVersion
  /\ BitSet(cacheFile[2]) = mCatalogs

\* C29: whether a run hits the cache, and the records it then has, are
\* determined by the cache file and the set of configured catalog types alone:
\* with the catalog files in the one directory or in the other the same file
\* and the same types give the same outcome; a hit loads the records of the
\* file and no catalog is opened.
C29_PathIndependence ==
  JustRead =>
    /\ LastEvent = "cacheHit" <=> KeyMatches
    /\ KeyMatches =>
         /\ mStars = [i \in 1..cacheFile[3] |-> ReadStar(cacheFile, i - 1, DefaultStar)]
         /\ pc = "build"
         /\ ~Logged("open") /\ ~Logged("openFailed")
    /\ ~KeyMatches => mStars = <<>>
    /\ \A t \in mCatalogs : paths[t] \in PathIds

\* a hit of a run whose catalog files are not where the writing run may have
\* had them: two catalogs, two records, none of the catalogs opened
C29_Witness ==
  /\ JustRead
  /\ Cardinality(mCatalogs) = 2
  /\ \A t \in mCatalogs : paths[t] = 2
  /\ LastEvent = "cacheHit"
  /\ Len(mStars) = 2
  /\ ~Logged("open")

====
